---- MODULE Spec2Model ----
(***************************************************************************)
(* Model of pdf_to_video.py: the per-page pipeline of pdf_to_video(), the  *)
(* skip-if-exists cache, the concatenation manifest (list.txt) and the     *)
(* final concatenation, report and cleanup.  The program is run up to      *)
(* MaxRuns times over one working directory, so that files left behind by  *)
(* one run are seen by the next.                                           *)
(*                                                                         *)
(* External collaborators (PyMuPDF, gTTS, ffmpeg) are modelled by their    *)
(* outcomes: each call either succeeds or fails, and it can succeed only   *)
(* when the input files it reads exist.  Of the intermediate files, the    *)
(* state keeps the ones a later run reads before writing: the clips.  The  *)
(* page image, the narration and the mixed audio are always written in the *)
(* iteration that reads them (gTTS.save opens the file for writing before  *)
(* it fetches the speech, so no older narration survives a failed          *)
(* synthesis): they appear in the record of files written and, for the     *)
(* narration, as the flag audio_saved of the iteration.                    *)
(***************************************************************************)
EXTENDS Integers, Sequences, FiniteSets

\* ---------------------------------------------------------------- bounds
MaxPages == 3        \* largest document (doc.page_count)
MaxStart == 1        \* largest --start-page tried
MaxNum   == 2        \* largest --num-pages tried
MaxRuns  == 2        \* number of runs over the same working directory
MaxLen   == 5        \* longest text given to markdown_to_speech_text

\* ------------------------------------------------------------- constants
None   == -1         \* Python None (num_pages); exit_status of a running process
NoFile == -1         \* a clip path at which no file exists
NoOutput == [kind |-> "none", clips |-> << >>]   \* output_file does not exist
OldOutput == [kind |-> "old", clips |-> << >>]   \* output_file left by an earlier run

Positions == 1 .. MaxPages          \* the i+1 of <name>_page_{i+1}

VARIABLES
    pc,               \* position in pdf_to_video()
    runs,             \* number of runs started so far
    page_count,       \* doc.page_count of the input document
    start_page,       \* argument start_page
    num_pages,        \* argument num_pages (None = all pages)
    N,                \* len(markdown_pages)
    i,                \* loop variable of "for i in range(N)"
    bg_music_path,    \* "None", "local" (cwd asset) or "tmp" (tone in tmp_pdf)
    local_music,      \* background_music.mp3 exists in the cwd
    list_txt,         \* lines of tmp_pdf/list.txt, as the i+1 of each clip
    audio_saved,      \* this iteration's tts.save(audio_path) has succeeded
    clips,            \* position -> document page its .mp4 shows, or NoFile
    mixed_audio_path, \* "mixed" or "narration": the audio given to the renderer
    output_file,      \* [kind: "none", "old", "partial", "concat"; clips concatenated]
    bar,              \* progress counter (number of bar.next() calls)
    concat_result,    \* "none", "ok", "input_error", "encoder_error"
    report,           \* "none", "created", "missing": the final message
    exit_status,      \* None while running, 0 or 1 once the run has ended
    cleaned,          \* "none", "removed", "failed": shutil.rmtree outcome
    stages,           \* history: <<position, stage>> invoked in this run
    failures,         \* history: <<position, stage>> that failed in this run
    writes,           \* history: <<position, kind>> files written in this run
    visits,           \* history: <<position, clip existed when visited>>
    prev,             \* history: Summary of the previous run, if comparable
    concat_calls,     \* history: number of concat calls made in this run
    uses,             \* history: <<position, "mix_bg" or "render_audio", file>>
    bg_calls,         \* history: number of download_background_music calls
    markdown_pages,   \* extract_markdown_from_pdf's list, as the document page of each text
    speech_text,      \* the text given to gTTS in this iteration
    sources,          \* history: <<position, "text" or "image", document page read>>
    spoken,           \* history: <<position, text>> of every gTTS call of this run
    input_text,    \* markdown_to_speech_text called on its own: the argument
    text,             \* markdown_to_speech_text called on its own: the value returned
    calls             \* markdown_to_speech_text called on its own: calls made

progVars == << pc, runs, page_count, start_page, num_pages, N, i, bg_music_path,
           local_music, list_txt, audio_saved, clips, mixed_audio_path,
           output_file, bar, concat_result, report,
           exit_status, cleaned, stages, failures, writes, visits, prev,
           concat_calls, uses, bg_calls, markdown_pages, speech_text,
           sources, spoken >>
callVars == << input_text, text, calls >>
vars     == << progVars, callVars >>

fsVars   == << audio_saved, clips >>   \* files of tmp_pdf
histVars == << stages, failures, writes, visits >>
argVars  == << page_count, start_page, num_pages, local_music >>
auxVars  == << concat_calls, uses, bg_calls, sources, spoken >>
textVars == << markdown_pages, speech_text >>

\* prev when the run before this one is not a normally ended run with the
\* same arguments (or there is none)
NoPrev == [outcome |-> "none", list_txt |-> << >>]

\* ------------------------------------------------------------- helpers
Min(a, b) == IF a < b THEN a ELSE b

\* len(range(a, b))
RangeLen(a, b) == IF b > a THEN b - a ELSE 0

\* extract_markdown_from_pdf: number of pages returned
PagesToProcess(np, sp, total) ==
    IF np = None THEN RangeLen(sp, total)
                 ELSE RangeLen(sp, Min(sp + np, total))

\* range(a, b) as the sequence of its values
Range(a, b) == [k \in 1 .. RangeLen(a, b) |-> a + k - 1]

\* extract_markdown_from_pdf: the document pages whose text is returned,
\* in the order of the returned list (lines 32-37)
pages_to_process(np, sp, total) ==
    IF np = None THEN Range(sp, total)
                 ELSE Range(sp, Min(sp + np, total))

\* ImagePage as it would be if the image were taken at the loop index
ImagePageNoOffset(k) == k

\* the document page loaded for the image of loop index k (line 168)
ImagePage(k) == start_page + k

\* ManifestEntry as it would be if the lines were numbered from the end
ManifestEntryReversed(k) == N - k

\* the clip named by the manifest line written for loop index k
ManifestEntry(k) == k + 1

\* CacheHit as it would be if the existence check were missing
CacheHitNever(pos) == FALSE

\* os.path.exists(out_path_mp4)
CacheHit(pos) == clips[pos] # NoFile

\* rmtree_clips as it would be if the clips survived the cleanup
rmtree_clips_kept(c) == c

\* shutil.rmtree(tmp_dir): what is left of the clips
rmtree_clips(c) == [p \in Positions |-> NoFile]

\* what a run that has just returned normally leaves for a next run with
\* the same arguments to compare with: its manifest and whether its cleanup
\* removed the intermediate directory
Summary == [outcome |-> cleaned, list_txt |-> list_txt]

\* the content of an output file left by an earlier run is never read
Leftover(out) == IF out.kind = "none" THEN NoOutput ELSE OldOutput

\* ------------------------------------------------------- speech text
\* A text is a sequence of characters.  "maru" stands for the ideographic
\* full stop U+3002 (and, its class being treated alike by every pattern,
\* for the full-width ! and ?), "a" for any character that is neither
\* white space nor punctuation nor "#".
Space   == {" ", "\n"}              \* the characters of \s in the alphabet
Punct   == {"maru"}                 \* the characters of the class of lines 83, 86
Chars   == {"#", "\n", " ", "maru", "a"}

Take(t, n) == SubSeq(t, 1, n)
Drop(t, n) == SubSeq(t, n + 1, Len(t))

\* length of the longest prefix of t made of white space (greedy \s*)
RECURSIVE SpaceRun(_)
SpaceRun(t) ==
    IF t = << >> \/ Head(t) \notin Space THEN 0 ELSE 1 + SpaceRun(Tail(t))

\* index of the first, of the last newline of t; 0 if there is none
FirstNewline(t) ==
    IF \E k \in 1 .. Len(t) : t[k] = "\n"
        THEN CHOOSE k \in 1 .. Len(t) :
                 t[k] = "\n" /\ \A j \in 1 .. k - 1 : t[j] # "\n"
        ELSE 0
LastNewline(t) ==
    IF \E k \in 1 .. Len(t) : t[k] = "\n"
        THEN CHOOSE k \in 1 .. Len(t) :
                 t[k] = "\n" /\ \A j \in k + 1 .. Len(t) : t[j] # "\n"
        ELSE 0

\* re.sub(r'##\s*(.*?)\n', r'\1maru', t), line 74.  At a "##" the greedy
\* \s* first takes the whole run of white space; the lazy group then runs
\* to the first newline after the run.  If there is none the run is given
\* back down to its last newline, and the group is empty.
RECURSIVE sub_headers(_)
sub_headers(t) ==
    IF Len(t) < 2 THEN t
    ELSE IF t[1] = "#" /\ t[2] = "#"
        THEN LET rest  == Drop(t, 2)
                 run   == Take(rest, SpaceRun(rest))
                 after == Drop(rest, SpaceRun(rest))
             IN  IF FirstNewline(after) # 0
                     THEN Take(after, FirstNewline(after) - 1) \o << "maru" >>
                          \o sub_headers(Drop(after, FirstNewline(after)))
                 ELSE IF LastNewline(run) # 0
                     THEN << "maru" >> \o sub_headers(Drop(rest, LastNewline(run)))
                 ELSE << t[1] >> \o sub_headers(Tail(t))
        ELSE << t[1] >> \o sub_headers(Tail(t))

\* re.sub(r'\n\n', 'maru', t), line 77
RECURSIVE sub_paragraphs(_)
sub_paragraphs(t) ==
    IF Len(t) < 2 THEN t
    ELSE IF t[1] = "\n" /\ t[2] = "\n"
        THEN << "maru" >> \o sub_paragraphs(Drop(t, 2))
        ELSE << t[1] >> \o sub_paragraphs(Tail(t))

\* sub_spaces as it would be without line 80
sub_spaces_kept(t) == t

\* re.sub(r'\s+', ' ', t), line 80
RECURSIVE sub_spaces(_)
sub_spaces(t) ==
    IF t = << >> THEN t
    ELSE IF Head(t) \in Space
        THEN << " " >> \o sub_spaces(Drop(t, SpaceRun(t)))
        ELSE << Head(t) >> \o sub_spaces(Tail(t))

\* re.sub(r'([maru!?])\s*', r'\1 ', t), line 83
RECURSIVE sub_pauses(_)
sub_pauses(t) ==
    IF t = << >> THEN t
    ELSE IF Head(t) \in Punct
        THEN << Head(t), " " >> \o sub_pauses(Drop(Tail(t), SpaceRun(Tail(t))))
        ELSE << Head(t) >> \o sub_pauses(Tail(t))

\* re.sub(r'([maru!?])([^\s])', r'\1 \2', t), line 86: the character after
\* the mark belongs to the match, so the scan goes on after it
RECURSIVE sub_spacing(_)
sub_spacing(t) ==
    IF Len(t) < 2 THEN t
    ELSE IF t[1] \in Punct /\ t[2] \notin Space
        THEN << t[1], " ", t[2] >> \o sub_spacing(Drop(t, 2))
        ELSE << t[1] >> \o sub_spacing(Tail(t))

\* str.strip()
RECURSIVE rstrip(_)
rstrip(t) ==
    IF t = << >> \/ t[Len(t)] \notin Space THEN t ELSE rstrip(Take(t, Len(t) - 1))
strip(t) == rstrip(Drop(t, SpaceRun(t)))

\* markdown_to_speech_text, lines 67-87
markdown_to_speech_text(markdown_text) ==
    strip(sub_spacing(sub_pauses(sub_spaces(sub_paragraphs(sub_headers(markdown_text))))))

\* the text extracted from a document page: the document under conversion
\* has a title page (a header and two paragraphs), then a page without
\* text, then pages of one paragraph
DocText(page_num) ==
    CASE page_num = 0 -> << "#", "#", " ", "a", "\n", "a", "maru", "\n", "\n", "a" >>
      [] page_num = 1 -> << >>
      [] OTHER        -> << "a", " ", "a", "maru" >>

\* the placeholder of line 177
Placeholder == << "a", "a", "maru" >>

\* spoken_text as it would be without lines 176-177
spoken_text_unchecked(markdown) == markdown_to_speech_text(markdown)

\* lines 175-177: the speech text of a page, or the placeholder when that
\* text is empty
spoken_text(markdown) ==
    IF markdown_to_speech_text(markdown) = << >>
        THEN Placeholder
        ELSE markdown_to_speech_text(markdown)

\* --------------------------------------------------------------- Init
ProgramInit ==
    /\ pc = "start"
    /\ runs = 0
    /\ page_count \in 1 .. MaxPages
    /\ start_page = 0
    /\ num_pages = None
    /\ N = 0
    /\ i = 0
    /\ bg_music_path = "None"
    /\ local_music \in BOOLEAN
    /\ list_txt = << >>
    /\ audio_saved = FALSE
    /\ clips = [p \in Positions |-> NoFile]
    /\ mixed_audio_path = "narration"
    /\ output_file = NoOutput
    /\ bar = 0
    /\ concat_result = "none"
    /\ report = "none"
    /\ exit_status = None
    /\ cleaned = "none"
    /\ stages = {}
    /\ failures = {}
    /\ writes = {}
    /\ visits = {}
    /\ prev = NoPrev
    /\ concat_calls = 0
    /\ uses = {}
    /\ bg_calls = 0
    /\ markdown_pages = << >>
    /\ speech_text = << >>
    /\ sources = {}
    /\ spoken = << >>

\* the program before its first run; markdown_to_speech_text is called by
\* the runs only
Init ==
    /\ ProgramInit
    /\ input_text = << >>
    /\ text = << >>
    /\ calls = 0

\* ------------------------------------------------------------ actions

\* pdf_to_video entry: arguments, os.makedirs(tmp_dir, exist_ok=True)
StartRun ==
    /\ pc \in {"start", "exited"}
    /\ runs < MaxRuns
    /\ runs' = runs + 1
    /\ start_page' \in 0 .. MaxStart
    /\ num_pages' \in {None} \cup (1 .. MaxNum)
    /\ prev' = IF /\ exit_status = 0
                    /\ start_page' = start_page
                    /\ num_pages' = num_pages
                 THEN Summary ELSE NoPrev
    /\ N' = 0
    /\ i' = 0
    /\ bg_music_path' = "None"
    /\ mixed_audio_path' = "narration"
    /\ bar' = 0
    /\ concat_result' = "none"
    /\ report' = "none"
    /\ exit_status' = None
    /\ cleaned' = "none"
    /\ stages' = {}
    /\ failures' = {}
    /\ writes' = {}
    /\ visits' = {}
    /\ pc' = "bg"
    /\ output_file' = Leftover(output_file)
    /\ concat_calls' = 0
    /\ uses' = {}
    /\ bg_calls' = 0
    /\ markdown_pages' = << >>
    /\ speech_text' = << >>
    /\ sources' = {}
    /\ spoken' = << >>
    /\ UNCHANGED << callVars, page_count, local_music, list_txt, fsVars >>

\* the "except Exception" handler of pdf_to_video: print, sys.exit(1)
Fatal ==
    /\ exit_status' = 1
    /\ pc' = "exited"

\* download_background_music, called once at lines 133-134: the local
\* asset if it exists, else a tone written by ffmpeg to the path in
\* tmp_pdf, else None.  Here and in the mix, the render and the concat,
\* run() is called without a timeout: if ffmpeg never returns, neither
\* does the call ("hung_...").
DownloadBackgroundMusic ==
    /\ pc = "bg"
    /\ bg_calls' = bg_calls + 1
    /\ IF local_music
         THEN /\ bg_music_path' = "local"
              /\ pc' = "extract"
              /\ UNCHANGED writes
         ELSE \/ /\ bg_music_path' = "tmp"
                 /\ writes' = writes \cup { << 0, "bg" >> }
                 /\ pc' = "extract"
              \/ /\ bg_music_path' = "None"
                 /\ pc' = "extract"
                 /\ UNCHANGED writes
              \/ /\ pc' = "hung_bg"
                 /\ UNCHANGED << bg_music_path, writes >>
    /\ UNCHANGED << callVars, runs, concat_calls, uses, sources, spoken, textVars, argVars, N, i, list_txt,
                    fsVars, mixed_audio_path, output_file, bar,
                    concat_result, report, exit_status, cleaned, stages,
                    failures, visits, prev >>

\* extract_markdown_from_pdf, then Bar(...) and open(list_txt_path, 'w').
\* fitz.open raises when the document cannot be opened.
ExtractMarkdown ==
    /\ pc = "extract"
    /\ \/ /\ markdown_pages' = pages_to_process(num_pages, start_page, page_count)
          /\ N' = Len(markdown_pages')
          /\ i' = 0
          /\ list_txt' = << >>
          /\ pc' = "loop"
          /\ UNCHANGED exit_status
       \/ /\ Fatal
          /\ UNCHANGED << N, i, list_txt, markdown_pages >>
    /\ UNCHANGED << callVars, runs, auxVars, speech_text, argVars, bg_music_path, fsVars, mixed_audio_path,
                    output_file, bar, concat_result, report, cleaned,
                    histVars, prev >>

\* top of a loop iteration: the manifest line is written, then the cache
\* check either skips the page (five bar.next()) or lets the stages run
PageBegin ==
    /\ pc = "loop"
    /\ i < N
    /\ list_txt' = Append(list_txt, ManifestEntry(i))
    /\ visits' = visits \cup { << i + 1, clips[i + 1] # NoFile >> }
    /\ IF CacheHit(i + 1)
         THEN /\ bar' = bar + 5
              /\ i' = i + 1
              /\ pc' = "loop"
         ELSE /\ pc' = "image"
              /\ UNCHANGED << bar, i >>
    /\ audio_saved' = FALSE
    /\ UNCHANGED << callVars, runs, auxVars, textVars, argVars, N, bg_music_path, clips,
                    mixed_audio_path, output_file, concat_result, report,
                    exit_status, cleaned, stages, failures, writes, prev >>

\* fitz.open, load_page(start_page + i), get_pixmap, pix.save(image_path):
\* not inside a try of its own, so a failure reaches the outer handler
PageImage ==
    /\ pc = "image"
    /\ stages' = stages \cup { << i + 1, "image" >> }
    /\ sources' = sources \cup { << i + 1, "image", ImagePage(i) >> }
    /\ \/ /\ ImagePage(i) < page_count
          /\ writes' = writes \cup { << i + 1, "png" >> }
          /\ bar' = bar + 1
          /\ pc' = "text"
          /\ UNCHANGED << failures, exit_status >>
       \/ /\ failures' = failures \cup { << i + 1, "image" >> }
          /\ Fatal
          /\ UNCHANGED << writes, bar >>
    /\ UNCHANGED << callVars, runs, concat_calls, uses, bg_calls, spoken, textVars,
                    argVars, N, i, bg_music_path, list_txt, fsVars,
                    mixed_audio_path, output_file, concat_result, report,
                    cleaned, visits, prev >>

\* markdown_to_speech_text(markdown_pages[i]), placeholder when empty
SpeechText ==
    /\ pc = "text"
    /\ speech_text' = spoken_text(DocText(markdown_pages[i + 1]))
    /\ sources' = sources \cup { << i + 1, "text", markdown_pages[i + 1] >> }
    /\ bar' = bar + 1
    /\ pc' = "tts"
    /\ UNCHANGED << callVars, runs, concat_calls, uses, bg_calls, spoken,
                    markdown_pages, argVars, N, i, bg_music_path, list_txt,
                    fsVars, mixed_audio_path, output_file, concat_result,
                    report, exit_status, cleaned, histVars, prev >>

\* Synthesize as it would be if a synthesis error ended the page's iteration
SynthesizeEndsPage ==
    /\ pc = "tts"
    /\ stages' = stages \cup { << i + 1, "tts" >> }
    /\ \/ /\ audio_saved' = TRUE
          /\ writes' = writes \cup { << i + 1, "mp3" >> }
          /\ pc' = "mix"
          /\ UNCHANGED << failures, i >>
       \/ /\ failures' = failures \cup { << i + 1, "tts" >> }
          /\ audio_saved' = FALSE
          /\ pc' = "loop"
          /\ i' = i + 1
          /\ UNCHANGED writes
    /\ bar' = bar + 1
    /\ spoken' = Append(spoken, << i + 1, speech_text >>)
    /\ UNCHANGED << callVars, runs, concat_calls, uses, bg_calls, sources, textVars,
                    argVars, N, bg_music_path, list_txt, clips,
                    mixed_audio_path, output_file, concat_result, report,
                    exit_status, cleaned, visits, prev >>

\* gTTS(...).save(audio_path) inside try/except: an error is printed and
\* the iteration goes on, with no playable narration at audio_path
Synthesize ==
    /\ pc = "tts"
    /\ stages' = stages \cup { << i + 1, "tts" >> }
    /\ \/ /\ audio_saved' = TRUE
          /\ writes' = writes \cup { << i + 1, "mp3" >> }
          /\ UNCHANGED failures
       \/ /\ failures' = failures \cup { << i + 1, "tts" >> }
          /\ audio_saved' = FALSE
          /\ UNCHANGED writes
    /\ bar' = bar + 1
    /\ pc' = "mix"
    /\ spoken' = Append(spoken, << i + 1, speech_text >>)
    /\ UNCHANGED << callVars, runs, concat_calls, uses, bg_calls, sources, textVars,
                    argVars, N, i, bg_music_path, list_txt, clips,
                    mixed_audio_path, output_file, concat_result, report,
                    exit_status, cleaned, visits, prev >>

\* MixBackground as it would be if line 134 did not replace the path built
\* at line 133
MixBackgroundTmpPath == "tmp"

\* the second input of the mix, line 195
MixBackground == bg_music_path

\* MixAudio as it would be if the mix were run without looking at
\* bg_music_path
MixAudioAlways ==
    /\ pc = "mix"
    /\ stages' = stages \cup { << i + 1, "mix" >> }
    /\ uses' = uses \cup { << i + 1, "mix_bg", MixBackground >> }
    /\ \/ /\ audio_saved
          /\ writes' = writes \cup { << i + 1, "mixed" >> }
          /\ mixed_audio_path' = "mixed"
          /\ UNCHANGED failures
       \/ /\ failures' = failures \cup { << i + 1, "mix" >> }
          /\ mixed_audio_path' = "narration"
          /\ UNCHANGED writes
    /\ pc' = "render"
    /\ UNCHANGED << callVars, runs, concat_calls, bg_calls, sources, spoken, textVars,
                    argVars, N, i, bg_music_path,
                    list_txt, fsVars, output_file, bar, concat_result,
                    report, exit_status, cleaned, visits, prev >>

\* MixAudio as it would be without the fallback assignments of lines 204
\* and 207
MixAudioNoFallback ==
    /\ pc = "mix"
    /\ IF bg_music_path # "None"
         THEN /\ stages' = stages \cup { << i + 1, "mix" >> }
              /\ uses' = uses \cup { << i + 1, "mix_bg", MixBackground >> }
              /\ \/ /\ audio_saved
                    /\ writes' = writes \cup { << i + 1, "mixed" >> }
                    /\ UNCHANGED failures
                 \/ /\ failures' = failures \cup { << i + 1, "mix" >> }
                    /\ UNCHANGED writes
              /\ mixed_audio_path' = "mixed"
         ELSE /\ mixed_audio_path' = "narration"
              /\ UNCHANGED << stages, failures, writes, uses >>
    /\ pc' = "render"
    /\ UNCHANGED << callVars, runs, concat_calls, bg_calls, sources, spoken, textVars,
                    argVars, N, i, bg_music_path,
                    list_txt, fsVars, output_file, bar, concat_result,
                    report, exit_status, cleaned, visits, prev >>

\* the mix step: ffmpeg is run, with bg_music_path as its second input,
\* only when a background track was resolved; on any failure the narration
\* itself becomes the clip's audio
MixAudio ==
    /\ pc = "mix"
    /\ IF bg_music_path # "None"
         THEN /\ stages' = stages \cup { << i + 1, "mix" >> }
              /\ uses' = uses \cup { << i + 1, "mix_bg", MixBackground >> }
              /\ \/ /\ audio_saved
                    /\ writes' = writes \cup { << i + 1, "mixed" >> }
                    /\ mixed_audio_path' = "mixed"
                    /\ pc' = "render"
                    /\ UNCHANGED failures
                 \/ /\ failures' = failures \cup { << i + 1, "mix" >> }
                    /\ mixed_audio_path' = "narration"
                    /\ pc' = "render"
                    /\ UNCHANGED writes
                 \/ /\ pc' = "hung_mix"
                    /\ UNCHANGED << mixed_audio_path, failures, writes >>
         ELSE /\ mixed_audio_path' = "narration"
              /\ pc' = "render"
              /\ UNCHANGED << stages, failures, writes, uses >>
    /\ UNCHANGED << callVars, runs, concat_calls, bg_calls, sources, spoken, textVars,
                    argVars, N, i, bg_music_path,
                    list_txt, fsVars, output_file, bar, concat_result,
                    report, exit_status, cleaned, visits, prev >>

\* the audio file handed to the renderer exists: the mixed file was
\* written by the mix that has just succeeded, the narration may be missing
AudioTrackExists ==
    IF mixed_audio_path = "mixed" THEN TRUE ELSE audio_saved

\* the clip render: ffmpeg needs the image (saved earlier in the same
\* iteration) and the audio track; a failure is printed and the loop goes
\* on to the next page
RenderClip ==
    /\ pc = "render"
    /\ stages' = stages \cup { << i + 1, "render" >> }
    /\ uses' = uses \cup { << i + 1, "render_audio", mixed_audio_path >> }
    /\ \/ /\ \/ /\ AudioTrackExists
                /\ clips' = [clips EXCEPT ![i + 1] = start_page + i]
                /\ writes' = writes \cup { << i + 1, "mp4" >> }
                /\ UNCHANGED failures
             \/ /\ failures' = failures \cup { << i + 1, "render" >> }
                /\ UNCHANGED << clips, writes >>
          /\ bar' = bar + 1
          /\ i' = i + 1
          /\ pc' = "loop"
       \/ /\ pc' = "hung_render"
          /\ UNCHANGED << clips, writes, failures, bar, i >>
    /\ UNCHANGED << callVars, runs, concat_calls, bg_calls, sources, spoken, textVars,
                    argVars, N, bg_music_path, list_txt,
                    audio_saved, mixed_audio_path, output_file,
                    concat_result, report, exit_status, cleaned, visits,
                    prev >>

\* every clip the manifest names exists, and there is at least one
ManifestReadable ==
    /\ Len(list_txt) > 0
    /\ \A k \in 1 .. Len(list_txt) : clips[list_txt[k]] # NoFile

\* what a concatenation that stops at an unreadable manifest can leave at
\* output_file: the file as it was, or, when it had copied the first clips
\* before reaching a missing one, a truncated output
AfterFailedConcat(out) ==
    {out} \cup IF Len(list_txt) > 0 /\ clips[list_txt[1]] # NoFile
               THEN { [kind |-> "partial", clips |-> << >>] }
               ELSE {}

\* end of the loop (bar.finish, list.txt closed) and the concat call: the
\* encoder fails on an empty manifest or one that names a missing clip
\* ("input_error"), or cannot be run at all ("encoder_error"); its status
\* is printed and otherwise ignored
Concatenate ==
    /\ pc = "loop"
    /\ i = N
    /\ \/ /\ ManifestReadable
          /\ concat_result' = "ok"
          /\ output_file' = [kind |-> "concat", clips |-> list_txt]
       \/ /\ ~ManifestReadable
          /\ concat_result' = "input_error"
          /\ output_file' \in AfterFailedConcat(output_file)
       \/ /\ concat_result' = "encoder_error"
          /\ UNCHANGED output_file
       \/ /\ concat_result' = "never_returned"
          /\ UNCHANGED output_file
    /\ concat_calls' = concat_calls + 1
    /\ pc' = IF concat_result' = "never_returned" THEN "hung_concat" ELSE "report"
    /\ UNCHANGED << callVars, runs, uses, bg_calls, sources, spoken, textVars, argVars, N, i, bg_music_path, list_txt, fsVars,
                    mixed_audio_path, bar, report, exit_status, cleaned,
                    histVars, prev >>

\* os.path.exists(output_file) decides the final message
FinalMessage(out) == IF out.kind # "none" THEN "created" ELSE "missing"

\* the final message, shutil.rmtree(tmp_dir, ignore_errors=True) and the
\* normal return of pdf_to_video (exit status 0)
ReportAndCleanup ==
    /\ pc = "report"
    /\ report' = FinalMessage(output_file)
    /\ \/ /\ cleaned' = "removed"
          /\ UNCHANGED audio_saved
          /\ clips' = rmtree_clips(clips)
       \/ /\ cleaned' = "failed"
          /\ UNCHANGED fsVars
    /\ exit_status' = 0
    /\ pc' = "exited"
    /\ UNCHANGED << callVars, runs, auxVars, textVars, argVars, N, i, bg_music_path, list_txt,
                    mixed_audio_path, output_file, bar, concat_result,
                    histVars, prev >>

Next ==
    \/ StartRun
    \/ DownloadBackgroundMusic
    \/ ExtractMarkdown
    \/ PageBegin
    \/ PageImage
    \/ SpeechText
    \/ Synthesize
    \/ MixAudio
    \/ RenderClip
    \/ Concatenate
    \/ ReportAndCleanup

Spec == Init /\ [][Next]_vars

\* ------------------------------------- markdown_to_speech_text on its own
\* every text of at most MaxLen characters
Texts == UNION { [1 .. n -> Chars] : n \in 0 .. MaxLen }

InitText ==
    /\ ProgramInit
    /\ page_count = 1
    /\ local_music = FALSE
    /\ input_text \in Texts
    /\ text = << >>
    /\ calls = 0

\* text = markdown_to_speech_text(input_text)
CallSpeechText ==
    /\ calls = 0
    /\ text' = markdown_to_speech_text(input_text)
    /\ calls' = 1
    /\ UNCHANGED << input_text, progVars >>

\* the value returned is given to markdown_to_speech_text again
CallAgain ==
    /\ calls = 1
    /\ input_text' = text
    /\ text' = markdown_to_speech_text(text)
    /\ calls' = 2
    /\ UNCHANGED progVars

NextText ==
    \/ CallSpeechText
    \/ CallAgain

SpecText == InitText /\ [][NextText]_vars

\* ============================================================== claims

\* the stages of a page, in the order the loop body runs them
StageOrder(st) == CASE st = "image"  -> 1
                    [] st = "tts"    -> 2
                    [] st = "mix"    -> 3
                    [] st = "render" -> 4

StagesOf(p)   == { f[2] : f \in { g \in stages : g[1] = p } }
FailuresOf(p) == { f[2] : f \in { g \in failures : g[1] = p } }
WritesOf(p)   == { f[2] : f \in { g \in writes : g[1] = p } }
EntriesOf(p)  == { k \in 1 .. Len(list_txt) : list_txt[k] = p }

\* the loop has ended and list.txt is about to be handed to the encoder
AtConcat == pc = "loop" /\ i = N

\* the iteration of position p has run to its end in this run
Completed(p) == p <= i

ClipExists(p) == clips[p] # NoFile

\* the positions of this run whose clip exists, in ascending order
ExistingClips == SelectSeq([p \in 1 .. N |-> p], ClipExists)

\* the previous run returned normally and had the arguments of this one
SameArgsAsPrev == prev.outcome \in {"removed", "failed"}

\* C1: when the manifest is handed to the concatenator, no entry names a
\* page whose clip rendering failed, and every entry names a clip that exists.
C1_OnlyRenderedClipsRegistered ==
    AtConcat =>
        /\ \A p \in Positions :
              "render" \in FailuresOf(p) => EntriesOf(p) = {}
        /\ \A k \in 1 .. Len(list_txt) : ClipExists(list_txt[k])

\* C2: if speech synthesis fails for page k and nothing fails on any other
\* page (and the encoder itself can be started), every other page has its
\* clip, the concatenation succeeds and the output holds the existing clips
\* in page order.
C2_PartialFailureContained ==
    \A k \in Positions :
        ( /\ pc = "report"
          /\ "tts" \in FailuresOf(k)
          /\ \A p \in Positions \ {k} : FailuresOf(p) = {}
          /\ concat_result # "encoder_error" )
        => /\ \A p \in (1 .. N) \ {k} : ClipExists(p)
           /\ concat_result = "ok"
           /\ output_file = [kind |-> "concat", clips |-> ExistingClips]

\* C3 (as claimed): a run that follows a normally ended run with the same
\* arguments writes the same manifest and executes no stage at all.
C3_SecondRunAllCacheHits ==
    ( pc = "report" /\ SameArgsAsPrev )
    => /\ list_txt = prev.list_txt
       /\ stages = {}

\* C3 (amended): a run that follows a normally ended run with the same
\* arguments writes the same manifest; when the earlier run's cleanup removed
\* the intermediate directory, no page is a cache hit and every page runs its
\* stages again.
C3_SecondRunSameManifest ==
    ( pc = "report" /\ SameArgsAsPrev )
    => /\ list_txt = prev.list_txt
       /\ prev.outcome = "removed" =>
             \A p \in 1 .. N :
                /\ << p, TRUE >> \notin visits
                /\ {"image", "tts", "render"} \subseteq StagesOf(p)

C3_Witness ==
    /\ pc = "report"
    /\ SameArgsAsPrev
    /\ prev.outcome = "removed"
    /\ N >= 2
    /\ Len(list_txt) = N

\* C4: a page whose clip exists when it is visited runs no stage and writes
\* no file but has exactly one manifest entry; a page whose clip does not
\* exist starts its stages with the page image, and once its iteration has
\* run to its end it ran the image, synthesis and render stages (and the mix
\* exactly when a background track was resolved).
C4_CacheHitSkipsPage ==
    \A v \in visits :
        /\ v[2] =>
              /\ \A g \in stages : g[1] # v[1]
              /\ \A w \in writes : w[1] # v[1]
              /\ Cardinality(EntriesOf(v[1])) = 1
        /\ ( ~v[2] /\ ~(pc = "image" /\ v[1] = i + 1) ) =>
              << v[1], "image" >> \in stages
        /\ ( ~v[2] /\ Completed(v[1]) ) =>
              /\ << v[1], "image" >> \in stages
              /\ << v[1], "tts" >> \in stages
              /\ << v[1], "render" >> \in stages
              /\ << v[1], "mix" >> \in stages <=> bg_music_path # "None"
              /\ Cardinality(EntriesOf(v[1])) = 1

C4_Witness ==
    /\ pc = "report"
    /\ \E p, q \in 1 .. N :
          /\ << p, TRUE >> \in visits
          /\ << q, FALSE >> \in visits
          /\ "mp4" \in WritesOf(q)

\* C5: the manifest entries are in strictly ascending page order, so no page
\* appears twice, whatever pages were skipped, rendered or failed.
C5_ManifestAscending ==
    \A a, b \in 1 .. Len(list_txt) :
        a < b => start_page + list_txt[a] - 1 < start_page + list_txt[b] - 1

C5_Witness ==
    /\ pc = "report"
    /\ Len(list_txt) = 3
    /\ << 1, TRUE >> \in visits
    /\ "render" \in FailuresOf(2)
    /\ "mp4" \in WritesOf(3)

\* C6: a failure in a per-page stage never aborts the run: a run in which a
\* page stage failed still visits every page and exits with status 0.
C6_PageErrorsNeverAbort ==
    ( pc = "exited" /\ failures # {} ) => ( exit_status = 0 /\ i = N )

C8_ConcatFailureFatal ==
    ( pc = "exited" /\ concat_result \in {"input_error", "encoder_error"} )
    => exit_status = 1

\* C9: the final video is reported as created only if the encoder reported
\* success and the output file exists.
C9_ReportReconciles ==
    report = "created" =>
        ( concat_result = "ok" /\ output_file.kind # "none" )

\* the document was opened by extract_markdown_from_pdf in this run: the
\* run got past the extraction, and if it ended with a fatal error, the
\* error came from a page stage
DocumentOpened ==
    /\ pc \notin {"start", "bg", "hung_bg", "extract"}
    /\ (pc = "exited" /\ exit_status = 1) => failures # {}

\* C10: every run that has ended, normally or with a fatal error, has
\* attempted to remove the intermediate directory.
C10_CleanupOnEveryExit ==
    pc = "exited" => cleaned # "none"

\* C11: a run in which the document opened and that has ended made exactly
\* one concat call, after every page of the range had been visited; no
\* concat call is made before the loop has ended.
C11_ConcatExactlyOnceAtEnd ==
    /\ ( pc = "exited" /\ DocumentOpened ) =>
          ( concat_calls = 1 /\ i = N /\ Len(list_txt) = N )
    /\ concat_calls <= 1
    /\ concat_calls = 1 => ( i = N /\ Len(list_txt) = N )

\* the audio files handed to the renderer for position p in this run
RenderAudioOf(p) == { u[3] : u \in { v \in uses : v[1] = p /\ v[2] = "render_audio" } }

\* C12: when no background track is resolved, no mix is invoked and no mixed
\* file is written for any page, and the audio handed to the renderer is the
\* page's narration file itself.
C12_NoBackgroundFallback ==
    ( bg_music_path = "None" /\ pc \notin {"start", "bg"} ) =>
        \A p \in Positions :
            /\ "mix" \notin StagesOf(p)
            /\ "mixed" \notin WritesOf(p)
            /\ RenderAudioOf(p) \subseteq {"narration"}
            /\ ( << p, FALSE >> \in visits /\ Completed(p) ) =>
                  RenderAudioOf(p) = {"narration"}

C12_Witness ==
    /\ pc = "report"
    /\ bg_music_path = "None"
    /\ \E p, q \in 1 .. N :
          /\ RenderAudioOf(p) = {"narration"}
          /\ "mp4" \in WritesOf(p)
          /\ "tts" \in FailuresOf(q)

\* C13: a page whose mix failed still has its clip render invoked, with the
\* narration as the audio track; the mixed file is the audio track only of
\* a page whose mix was run and succeeded.
C13_MixFailureKeepsPage ==
    /\ \A f \in failures :
          ( f[2] = "mix" /\ Completed(f[1]) ) =>
              /\ << f[1], "render" >> \in stages
              /\ << f[1], "render_audio", "narration" >> \in uses
              /\ << f[1], "render_audio", "mixed" >> \notin uses
    /\ \A u \in uses :
          ( u[2] = "render_audio" /\ u[3] = "mixed" ) =>
              /\ << u[1], "mix" >> \in stages
              /\ << u[1], "mix" >> \notin failures
              /\ << u[1], "mixed" >> \in writes
              /\ bg_music_path # "None"

C13_Witness ==
    /\ pc = "report"
    /\ \E p, q \in 1 .. N :
          /\ FailuresOf(p) = {"mix"}
          /\ RenderAudioOf(p) = {"narration"}
          /\ "mp4" \in WritesOf(p)
          /\ RenderAudioOf(q) = {"mixed"}

\* the background files given to the mix of position p in this run
MixBackgroundOf(p) == { u[3] : u \in { v \in uses : v[1] = p /\ v[2] = "mix_bg" } }

\* C14: the background track is resolved exactly once per run, before any
\* page is visited; every mix of the run gets the resolved file as its
\* background input; and the background file is written by no page step.
C14_BackgroundResolvedOnce ==
    /\ bg_calls <= 1
    /\ pc \notin {"start", "bg"} => bg_calls = 1
    /\ ( visits # {} \/ stages # {} ) => bg_calls = 1
    /\ \A u \in uses : u[2] = "mix_bg" => u[3] = bg_music_path
    /\ \A g \in stages :
          g[2] = "mix" => << g[1], "mix_bg", bg_music_path >> \in uses
    /\ \A w \in writes : w[2] = "bg" => w[1] \notin Positions

C14_Witness ==
    /\ pc = "report"
    /\ bg_music_path = "local"
    /\ \E p, q \in 1 .. N :
          /\ p # q
          /\ MixBackgroundOf(p) = {"local"}
          /\ MixBackgroundOf(q) = {"local"}

\* the text gTTS is to be given for each document page: its speech text,
\* or the placeholder when that is empty
ExpectedSpeech ==
    [d \in 0 .. MaxPages + MaxStart |->
        IF markdown_to_speech_text(DocText(d)) = << >>
            THEN Placeholder
            ELSE markdown_to_speech_text(DocText(d))]

\* the positions for which gTTS was called in this run, call by call
SpokenPositions == [k \in 1 .. Len(spoken) |-> spoken[k][1]]

\* C15: speech synthesis is never called with empty text.  Every page that
\* is not a cache hit and whose iteration has ended had exactly one gTTS
\* call, a cache hit none; the text of the call is the speech text of the
\* page, or the placeholder when that text is empty; and a run that reaches
\* the report has one manifest line per page, empty pages included.
C15_SynthesisNeverEmpty ==
    /\ pc = "tts" => speech_text # << >>
    /\ \A k \in 1 .. Len(spoken) :
          /\ spoken[k][2] # << >>
          /\ spoken[k][2] = ExpectedSpeech[start_page + spoken[k][1] - 1]
          /\ << spoken[k][1], TRUE >> \notin visits
          /\ \A j \in 1 .. k - 1 : spoken[j][1] # spoken[k][1]
    /\ \A p \in 1 .. i :
          << p, FALSE >> \in visits => \E k \in 1 .. Len(spoken) : spoken[k][1] = p
    /\ pc = "report" => Len(list_txt) = N

C15_Witness ==
    /\ pc = "report"
    /\ start_page = 0
    /\ N = 3
    /\ Len(list_txt) = 3
    /\ DocText(1) = << >>
    /\ SpokenPositions = << 1, 2, 3 >>
    /\ spoken[2][2] = Placeholder
    /\ spoken[3][2] # Placeholder

\* C16: for a document of page_count pages, the pages of a run are the
\* document pages start_page, ..., min(start_page + num_pages, page_count) - 1
\* (to page_count - 1 without num_pages, none when start_page >= page_count),
\* visited once each in ascending order; the text and the image of position
\* p both come from document page start_page + p - 1, a valid page index.
C16_PageRangeSelection ==
    DocumentOpened =>
        LET stop == IF num_pages = None THEN page_count
                    ELSE Min(start_page + num_pages, page_count)
            n    == IF stop > start_page THEN stop - start_page ELSE 0
        IN  /\ N = n
            /\ Len(markdown_pages) = n
            /\ \A k \in 1 .. n : markdown_pages[k] = start_page + k - 1
            /\ Len(list_txt) <= n
            /\ \A k \in 1 .. Len(list_txt) : list_txt[k] = k
            /\ AtConcat => Len(list_txt) = n
            /\ \A u \in sources :
                  /\ u[3] = start_page + u[1] - 1
                  /\ u[3] >= 0
                  /\ u[3] < page_count
            /\ \A w \in writes :
                  w[2] = "png" => << w[1], "image", start_page + w[1] - 1 >> \in sources
            /\ \A k \in 1 .. Len(spoken) :
                  << spoken[k][1], "text", start_page + spoken[k][1] - 1 >> \in sources

C16_Witness ==
    /\ pc = "report"
    /\ start_page = 1
    /\ num_pages = 2
    /\ page_count = 2
    /\ N = 1
    /\ sources = { << 1, "image", 1 >>, << 1, "text", 1 >> }

\* the process is inside a run(['ffmpeg', ...]) that will never return
Blocked == pc \in {"hung_bg", "hung_mix", "hung_render", "hung_concat"}

\* C17: no external-tool call blocks the run for good: the tone synthesis,
\* the mix, the clip render and the concatenation all come back, if only by
\* a timeout.
C17_NoToolCallBlocksTheRun ==
    ~Blocked

\* C19: a clip found by the cache check of position p, and still in place,
\* shows the document page this run selects for p, start_page + p - 1:
\* also after a run that ended with a fatal error and a rerun with another
\* start page.
C19_CacheHitClipShowsSelectedPage ==
    \A p \in Positions :
        ( << p, TRUE >> \in visits /\ ClipExists(p) ) =>
            clips[p] = start_page + p - 1

\* C20: every iteration that has ended advanced the progress counter by 5,
\* cache hit or not, so that the counter is 5 * i between iterations and
\* 5 * N, the declared maximum, when the loop has ended.
C20_ProgressFivePerPage ==
    /\ pc = "loop" => bar = 5 * i
    /\ AtConcat => bar = 5 * N

\* C18: markdown_to_speech_text is idempotent, and in the text it returns
\* there is no newline, no two white-space characters in a row, and every
\* punctuation mark that is not the last character is followed by exactly
\* one space.
C18_SpeechTextIdempotent ==
    /\ calls = 2 => text = input_text
    /\ calls >= 1 =>
          /\ \A k \in 1 .. Len(text) : text[k] # "\n"
          /\ \A k \in 1 .. Len(text) - 1 :
                /\ ~( text[k] \in Space /\ text[k + 1] \in Space )
                /\ text[k] \in Punct =>
                      /\ text[k + 1] = " "
                      /\ k + 2 <= Len(text) => text[k + 2] \notin Space

C18_Witness ==
    /\ calls = 2
    /\ text = input_text
    /\ Len(text) >= 4
    /\ \E k \in 1 .. Len(text) - 2 :
          text[k] \in Punct /\ text[k + 1] = " " /\ text[k + 2] \notin Space
====
